---- MODULE Spec2Model ----
(***************************************************************************)
(* tanstack-table-search-params: the batched state updater                 *)
(* (useBatchedStateUpdate.ts) that turns a change of the table state into  *)
(* one router navigation, together with the codecs, the query adapter, the *)
(* router and the debounce layer it works with.                            *)
(***************************************************************************)
EXTENDS Integers, Sequences, FiniteSets, TLC

VARIABLES
  options,    \* the hook's options
  state,      \* the table state (oldState of the next call)
  router,     \* the injected router: [query, pathname]
  location,   \* the URL the router last navigated to
  inflight,   \* navigations issued and not yet completed, oldest first
  call,       \* the latest invocation of the callback
  prev,       \* the invocation before it, when the two overlap
  navCount,   \* router.navigate calls so far
  synced,     \* debounce layer: the state the URL was last given
  timer,      \* debounce layer: ticks left per slice, -1 when not pending
  elapsed,    \* ticks since the slice last changed
  burst       \* changes of the slice since its timer was last idle

vars == <<options, state, router, location, inflight, call, prev, navCount,
          synced, timer, elapsed, burst>>

debounceVars == <<synced, timer, elapsed, burst>>

(***************************************************************************)
(* Values.  A query value is a string; UNDEF is JavaScript's undefined     *)
(* held under a key, ABSENT marks a key the object does not have.          *)
(***************************************************************************)
UNDEF == "<undefined>"

ABSENT == "<absent>"

Slices == {"globalFilter", "sorting", "pagination", "columnFilters",
           "columnOrder", "rowSelection"}

\* The largest zero-based page index of the model's table states.
MaxPageIndex == 2

PageSizes == {10, 20}

GlobalFilterValues == {UNDEF, "test"}

SortingValues == {<<>>, <<[id |-> "name", desc |-> TRUE]>>}

PaginationValues == [pageIndex : 0..MaxPageIndex, pageSize : PageSizes]

ColumnFiltersValues == {<<>>, <<[id |-> "name", value |-> "John"]>>}

ColumnOrderValues == {<<>>, <<"name", "id">>}

\* A row selection is an object: its entries in insertion order.
RowSelectionValues == {<<>>, <<[id |-> "r1", selected |-> TRUE]>>}

States == [globalFilter : GlobalFilterValues, sorting : SortingValues,
           pagination : PaginationValues, columnFilters : ColumnFiltersValues,
           columnOrder : ColumnOrderValues, rowSelection : RowSelectionValues]

(***************************************************************************)
(* Query objects: a value, UNDEF or ABSENT for every key of the model.     *)
(***************************************************************************)
OtherKey == "tab"

UndefinedKey == "ref"

KeyOrder == <<"tab", "ref", "globalFilter", "q", "sorting", "pageIndex", "page",
              "pageSize", "size", "columnFilters", "columnOrder",
              "rowSelection">>

Keys == {KeyOrder[i] : i \in 1..Len(KeyOrder)}

EmptyQuery == [k \in Keys |-> ABSENT]

Has(q, k) == q[k] # ABSENT

\* delete query[k]
Delete(q, k) == [q EXCEPT ![k] = ABSENT]

\* { ...a, ...b } and Object.assign(a, b)
Merge(a, b) == [k \in Keys |-> IF Has(b, k) THEN b[k] ELSE a[k]]

(***************************************************************************)
(* Options: parameter names, default values, and the slices that have a    *)
(* caller-supplied encoder.                                                *)
(***************************************************************************)
DefaultParamNames ==
  [globalFilter |-> "globalFilter", sorting |-> "sorting",
   pageIndex |-> "pageIndex", pageSize |-> "pageSize",
   columnFilters |-> "columnFilters", columnOrder |-> "columnOrder",
   rowSelection |-> "rowSelection"]

CustomParamNames ==
  [DefaultParamNames EXCEPT !.globalFilter = "q", !.pageIndex = "page",
                            !.pageSize = "size"]

LibraryDefaults ==
  [globalFilter |-> UNDEF, sorting |-> <<>>,
   pagination |-> [pageIndex |-> 0, pageSize |-> 10],
   columnFilters |-> <<>>, columnOrder |-> <<>>, rowSelection |-> <<>>]

CustomDefaults ==
  [LibraryDefaults EXCEPT !.globalFilter = "test",
                          !.pagination = [pageIndex |-> 1, pageSize |-> 20]]

\* debounceMilliseconds, in ticks of the model's clock.
DebounceTicks == 2

NoDebounce == [s \in Slices |-> 0]

DefaultCodecOptions ==
  {[paramNames |-> DefaultParamNames, defaultValues |-> LibraryDefaults,
    encoders |-> {}, debounce |-> NoDebounce],
   [paramNames |-> CustomParamNames, defaultValues |-> CustomDefaults,
    encoders |-> {}, debounce |-> NoDebounce]}

OverrideOptions ==
  {[paramNames |-> DefaultParamNames, defaultValues |-> LibraryDefaults,
    encoders |-> {s}, debounce |-> NoDebounce] : s \in Slices}

\* globalFilter and pagination debounced, the other slices immediate.
DebounceOptions ==
  [paramNames |-> DefaultParamNames, defaultValues |-> LibraryDefaults,
   encoders |-> {},
   debounce |-> [s \in Slices |->
                   IF s \in {"globalFilter", "pagination"}
                     THEN DebounceTicks ELSE 0]]

AllOptions == DefaultCodecOptions \cup OverrideOptions

\* The query parameter(s) of a slice under the configured names.
ParamsOf(slice) ==
  IF slice = "pagination"
    THEN {options.paramNames.pageIndex, options.paramNames.pageSize}
    ELSE {options.paramNames[slice]}

TableParams == UNION {ParamsOf(s) : s \in Slices}

(***************************************************************************)
(* Default codecs (encoder-decoder): value -> encoded string, or UNDEF.    *)
(***************************************************************************)
RECURSIVE Join(_, _)
Join(seq, sep) ==
  IF seq = <<>> THEN ""
  ELSE IF Len(seq) = 1 THEN Head(seq)
  ELSE Head(seq) \o sep \o Join(Tail(seq), sep)

encodeGlobalFilter(value, defaultValue) ==
  IF value = UNDEF \/ value = defaultValue THEN UNDEF ELSE value

encodeSorting(value, defaultValue) ==
  IF value = <<>> \/ value = defaultValue THEN UNDEF
  ELSE Join([i \in 1..Len(value) |->
               value[i].id \o "." \o (IF value[i].desc THEN "desc" ELSE "asc")],
            ",")

\* pageIndex is one-based in the URL; each field is left out on its own.
encodePagination(value, defaultValue) ==
  [pageIndex |-> IF value.pageIndex = defaultValue.pageIndex THEN UNDEF
                 ELSE ToString(value.pageIndex + 1),
   pageSize |-> IF value.pageSize = defaultValue.pageSize THEN UNDEF
                ELSE ToString(value.pageSize)]

\* encodeURIComponent(JSON.stringify(v)) of a string v
EncodedJson(v) == "%22" \o v \o "%22"

encodeColumnFilters(value, defaultValue) ==
  IF value = <<>> \/ value = defaultValue THEN UNDEF
  ELSE Join([i \in 1..Len(value) |->
               value[i].id \o "." \o EncodedJson(value[i].value)], ",")

encodeColumnOrder(value, defaultValue) ==
  IF value = <<>> \/ value = defaultValue THEN UNDEF ELSE Join(value, ",")

encodeRowSelection(value, defaultValue) ==
  LET chosen == SelectSeq(value, LAMBDA e : e.selected)
  IN IF chosen = <<>> \/ value = defaultValue THEN UNDEF
     ELSE Join([i \in 1..Len(chosen) |-> chosen[i].id], ",")

\* The default encoding of a whole table state, as a query object.
EncodeState(s) ==
  LET n == options.paramNames
      d == options.defaultValues
      pg == encodePagination(s.pagination, d.pagination)
      put(q, k, v) == IF v = UNDEF THEN q ELSE [q EXCEPT ![k] = v]
  IN put(put(put(put(put(put(put(EmptyQuery,
       n.globalFilter, encodeGlobalFilter(s.globalFilter, d.globalFilter)),
       n.sorting, encodeSorting(s.sorting, d.sorting)),
       n.pageIndex, pg.pageIndex),
       n.pageSize, pg.pageSize),
       n.columnFilters, encodeColumnFilters(s.columnFilters, d.columnFilters)),
       n.columnOrder, encodeColumnOrder(s.columnOrder, d.columnOrder)),
       n.rowSelection, encodeRowSelection(s.rowSelection, d.rowSelection))

(***************************************************************************)
(* Query adapter and URLSearchParams.                                      *)
(***************************************************************************)
\* The entries of a query in key order; a key holding undefined gives none.
convertQueryToURLSearchParams(q) ==
  SelectSeq([i \in 1..Len(KeyOrder) |-> <<KeyOrder[i], q[KeyOrder[i]]>>],
            LAMBDA e : e[2] # ABSENT /\ e[2] # UNDEF)

\* Percent-encoding of the values the codecs above produce.
PercentEncode(v) ==
  CASE v = "name.%22John%22" -> "name.%2522John%2522"
    [] v = "name,id" -> "name%2Cid"
    [] OTHER -> v

URLSearchParamsToString(entries) ==
  Join([i \in 1..Len(entries) |->
          entries[i][1] \o "=" \o PercentEncode(entries[i][2])], "&")

(***************************************************************************)
(* Caller-supplied encoders.  An encoder returns a query object over the   *)
(* slice's parameter(s) (a key may be missing or hold undefined), or       *)
(* throws.                                                                 *)
(***************************************************************************)
OverrideValues == {ABSENT, UNDEF, "custom"}

EncoderObjects(slice) ==
  {[k \in Keys |-> IF k \in ParamsOf(slice) THEN f[k] ELSE ABSENT] :
     f \in [ParamsOf(slice) -> OverrideValues]}

EncoderResults(slice) ==
  {[throws |-> TRUE, obj |-> EmptyQuery]}
    \cup {[throws |-> FALSE, obj |-> o] : o \in EncoderObjects(slice)}

(***************************************************************************)
(* useBatchedStateUpdate: the callback's body up to the navigate call.     *)
(* w = [query, updates] are the two locals the slice blocks work on.       *)
(***************************************************************************)
GlobalFilterChanged(old, new) == new.globalFilter # old.globalFilter

SortingChanged(old, new) == new.sorting # old.sorting

\* Mutant: only the page index is compared.
PageIndexChanged(old, new) ==
  new.pagination.pageIndex # old.pagination.pageIndex

PaginationChanged(old, new) ==
  \/ new.pagination.pageIndex # old.pagination.pageIndex
  \/ new.pagination.pageSize # old.pagination.pageSize

ColumnFiltersChanged(old, new) == new.columnFilters # old.columnFilters

ColumnOrderChanged(old, new) == new.columnOrder # old.columnOrder

RowSelectionChanged(old, new) == new.rowSelection # old.rowSelection

Changed(slice, old, new) ==
  CASE slice = "globalFilter" -> GlobalFilterChanged(old, new)
    [] slice = "sorting" -> SortingChanged(old, new)
    [] slice = "pagination" -> PaginationChanged(old, new)
    [] slice = "columnFilters" -> ColumnFiltersChanged(old, new)
    [] slice = "columnOrder" -> ColumnOrderChanged(old, new)
    [] slice = "rowSelection" -> RowSelectionChanged(old, new)

\* Mutant: an undefined encoding leaves the parameter where it is.
SetOrKeep(w, param, encoded) ==
  IF encoded # UNDEF THEN [w EXCEPT !.updates[param] = encoded] ELSE w

\* if (encoded !== undefined) updates[param] = encoded; else delete query[param]
SetOrDelete(w, param, encoded) ==
  IF encoded # UNDEF
    THEN [w EXCEPT !.updates[param] = encoded]
    ELSE [w EXCEPT !.query = Delete(@, param)]

\* Object.assign(updates, options.encoders.<slice>(value))
AssignOverride(w, obj) == [w EXCEPT !.updates = Merge(@, obj)]

GlobalFilterBlock(w, old, new, res) ==
  IF GlobalFilterChanged(old, new)
    THEN IF "globalFilter" \in options.encoders
           THEN AssignOverride(w, res["globalFilter"].obj)
           ELSE SetOrDelete(w, options.paramNames.globalFilter,
                  encodeGlobalFilter(new.globalFilter,
                                     options.defaultValues.globalFilter))
    ELSE w

SortingBlock(w, old, new, res) ==
  IF SortingChanged(old, new)
    THEN IF "sorting" \in options.encoders
           THEN AssignOverride(w, res["sorting"].obj)
           ELSE SetOrDelete(w, options.paramNames.sorting,
                  encodeSorting(new.sorting, options.defaultValues.sorting))
    ELSE w

PaginationBlock(w, old, new, res) ==
  IF PaginationChanged(old, new)
    THEN IF "pagination" \in options.encoders
           THEN AssignOverride(w, res["pagination"].obj)
           ELSE LET encoded == encodePagination(new.pagination,
                                 options.defaultValues.pagination)
                IN SetOrDelete(
                     SetOrDelete(w, options.paramNames.pageIndex,
                                 encoded.pageIndex),
                     options.paramNames.pageSize, encoded.pageSize)
    ELSE w

ColumnFiltersBlock(w, old, new, res) ==
  IF ColumnFiltersChanged(old, new)
    THEN IF "columnFilters" \in options.encoders
           THEN AssignOverride(w, res["columnFilters"].obj)
           ELSE SetOrDelete(w, options.paramNames.columnFilters,
                  encodeColumnFilters(new.columnFilters,
                                      options.defaultValues.columnFilters))
    ELSE w

ColumnOrderBlock(w, old, new, res) ==
  IF ColumnOrderChanged(old, new)
    THEN IF "columnOrder" \in options.encoders
           THEN AssignOverride(w, res["columnOrder"].obj)
           ELSE SetOrDelete(w, options.paramNames.columnOrder,
                  encodeColumnOrder(new.columnOrder,
                                    options.defaultValues.columnOrder))
    ELSE w

RowSelectionBlock(w, old, new, res) ==
  IF RowSelectionChanged(old, new)
    THEN IF "rowSelection" \in options.encoders
           THEN AssignOverride(w, res["rowSelection"].obj)
           ELSE SetOrDelete(w, options.paramNames.rowSelection,
                  encodeRowSelection(new.rowSelection,
                                     options.defaultValues.rowSelection))
    ELSE w

\* The six blocks in the order of the source, from query = { ...router.query }.
SliceBlocks(query, old, new, res) ==
  RowSelectionBlock(
    ColumnOrderBlock(
      ColumnFiltersBlock(
        PaginationBlock(
          SortingBlock(
            GlobalFilterBlock([query |-> query, updates |-> EmptyQuery],
                              old, new, res),
            old, new, res),
          old, new, res),
        old, new, res),
      old, new, res),
    old, new, res)

\* Mutant: the current query is not merged in.
FinalQueryUpdatesOnly(w) == w.updates

\* Mutant: the spread is the other way round, the current query wins.
FinalQueryQueryWins(w) == Merge(w.updates, w.query)

\* const finalQuery = { ...query, ...updates }
FinalQuery(w) == Merge(w.query, w.updates)

\* Object.fromEntries(Object.entries(finalQuery).filter(v !== undefined))
CleanQuery(q) == [k \in Keys |-> IF q[k] = UNDEF THEN ABSENT ELSE q[k]]

SearchParams(cleanQuery) ==
  URLSearchParamsToString(convertQueryToURLSearchParams(cleanQuery))

\* Mutant: the "?" is always appended.
NavigateUrlAlwaysMark(pathname, searchParams) ==
  pathname \o "?" \o searchParams

\* `${router.pathname}${searchParams ? `?${searchParams}` : ""}`
NavigateUrl(pathname, searchParams) ==
  pathname \o (IF searchParams # "" THEN "?" \o searchParams ELSE "")

\* The encoders that run in a call: those of the changed slices.
Invoked(old, new) == {s \in options.encoders : Changed(s, old, new)}

\* Mutant: an encoder's exception is swallowed.
NeverThrows(old, new, res) == FALSE

Throws(old, new, res) == \E s \in Invoked(old, new) : res[s].throws

(***************************************************************************)
(* The state machine.                                                      *)
(***************************************************************************)
Pathname == "/"

NoCall == [status |-> "none", navs |-> 0, overlapped |-> FALSE]

\* A query that gives every table parameter and one other key a stale value.
StaleQuery == [k \in Keys |-> IF k \in TableParams \cup {OtherKey}
                                THEN "stale" ELSE ABSENT]

\* The queries a call may find: in sync with the state, in sync with another
\* key and a key holding undefined beside it, or stale.
StartQueries(s) ==
  {EncodeState(s),
   [EncodeState(s) EXCEPT ![OtherKey] = "1", ![UndefinedKey] = UNDEF],
   StaleQuery}

IdleDebounce ==
  /\ timer = [s \in Slices |-> -1]
  /\ elapsed = [s \in Slices |-> 0]
  /\ burst = [s \in Slices |-> 0]

\* The table state of an empty URL, and one with every slice set.
EmptyState ==
  [globalFilter |-> UNDEF, sorting |-> <<>>,
   pagination |-> [pageIndex |-> 0, pageSize |-> 10],
   columnFilters |-> <<>>, columnOrder |-> <<>>, rowSelection |-> <<>>]

FullState ==
  [globalFilter |-> "test",
   sorting |-> <<[id |-> "name", desc |-> TRUE]>>,
   pagination |-> [pageIndex |-> 1, pageSize |-> 20],
   columnFilters |-> <<[id |-> "name", value |-> "John"]>>,
   columnOrder |-> <<"name", "id">>,
   rowSelection |-> <<[id |-> "r1", selected |-> TRUE]>>]

\* The states a behaviour starts in: every state under the library's own
\* options, the two corner states under configured ones.
InitStates(o) ==
  IF o.encoders = {} /\ o.defaultValues = LibraryDefaults
    THEN States ELSE {EmptyState, FullState}

Init ==
  /\ options \in AllOptions
  /\ state \in InitStates(options)
  /\ router \in [query : StartQueries(state), pathname : {Pathname}]
  /\ location = NavigateUrl(Pathname, SearchParams(router.query))
  /\ inflight = <<>>
  /\ call = NoCall
  /\ prev = NoCall
  /\ navCount = 0
  /\ synced = EmptyState
  /\ IdleDebounce

\* Mutant: one navigation for every changed slice.
NavigationsPerSlice(old, new, cleanQuery, url) ==
  [i \in 1..Cardinality({s \in Slices : Changed(s, old, new)}) |->
     [url |-> url, query |-> cleanQuery]]

\* Mutant: the query of the navigation issued last, when one is in flight.
LatestIssuedQuery ==
  IF inflight # <<>> THEN inflight[Len(inflight)].query ELSE router.query

\* const query = { ...router.query }
QuerySnapshot == router.query

\* The router.navigate calls of one invocation: one, with the merged query.
Navigations(old, new, cleanQuery, url) ==
  <<[url |-> url, query |-> cleanQuery]>>

\* One invocation of the callback, up to its await: the query is built from
\* router.query and handed to router.navigate, unless an encoder throws.
Invoke(old, new, res, overlapped) ==
  LET w == SliceBlocks(QuerySnapshot, old, new, res)
      cleanQuery == CleanQuery(FinalQuery(w))
      url == NavigateUrl(router.pathname, SearchParams(cleanQuery))
      navs == Navigations(old, new, cleanQuery, url)
  IN IF Throws(old, new, res)
       THEN /\ call' = [status |-> "threw", navs |-> 0, old |-> old,
                        new |-> new, res |-> res, startQuery |-> router.query,
                        overlapped |-> overlapped]
            /\ UNCHANGED <<inflight, navCount>>
       ELSE /\ call' = [status |-> "awaiting", navs |-> Len(navs), old |-> old,
                        new |-> new, res |-> res, startQuery |-> router.query,
                        cleanQuery |-> cleanQuery, url |-> url,
                        overlapped |-> overlapped]
            /\ inflight' = inflight \o navs
            /\ navCount' = navCount + Len(navs)

\* update(oldState, newState), called once on any input.
Update ==
  /\ call.status = "none"
  /\ \E new \in States :
       \E res \in [Invoked(state, new) -> UNION {EncoderResults(s) : s \in Slices}] :
         /\ \A s \in Invoked(state, new) : res[s] \in EncoderResults(s)
         /\ Invoke(state, new, res, FALSE)
         /\ state' = new
  /\ UNCHANGED <<options, router, location, prev, debounceVars>>

\* The router completes the oldest navigation: the URL and router.query
\* follow, and the awaiting call's promise resolves.  The call's record is
\* kept, or cut to its status where calls follow one another without end.
Completes(keep) ==
  /\ inflight # <<>>
  /\ location' = Head(inflight).url
  /\ router' = [router EXCEPT !.query = Head(inflight).query]
  /\ inflight' = Tail(inflight)
  /\ IF prev.status = "awaiting"
       THEN prev' = [prev EXCEPT !.status = "resolved"] /\ call' = call
       ELSE /\ call' = IF keep THEN [call EXCEPT !.status = "resolved"]
                       ELSE [NoCall EXCEPT !.status = "resolved",
                                           !.navs = call.navs]
            /\ prev' = prev
  /\ UNCHANGED <<options, state, navCount, debounceVars>>

Land == Completes(TRUE)

\* router.navigate rejects: the call rejects and nothing is retried.
Reject ==
  /\ inflight # <<>>
  /\ prev.status # "awaiting"
  /\ inflight' = Tail(inflight)
  /\ call' = [call EXCEPT !.status = "rejected"]
  /\ UNCHANGED <<options, state, router, location, prev, navCount, debounceVars>>

Next == Update \/ Land \/ Reject

Spec == Init /\ [][Next]_vars

(***************************************************************************)
(* Calls one after another under the default codecs, from a URL in sync    *)
(* with the table state: each call's oldState is the newState of the call  *)
(* before it, and each navigation completes before the next call.          *)
(***************************************************************************)
\* The update calls of one behaviour.
MaxCalls == 2

\* The query of a URL in sync with state s, holding another key as well.
SyncedQuery(s) == [EncodeState(s) EXCEPT ![OtherKey] = "1"]

InitSync ==
  /\ options \in DefaultCodecOptions
  /\ state \in States
  /\ router = [query |-> SyncedQuery(state), pathname |-> Pathname]
  /\ location = NavigateUrl(Pathname, SearchParams(router.query))
  /\ inflight = <<>>
  /\ call = NoCall
  /\ prev = NoCall
  /\ navCount = 0
  /\ synced = EmptyState
  /\ IdleDebounce

NextUpdate ==
  /\ call.status \in {"none", "resolved"}
  /\ navCount < MaxCalls
  /\ \E new \in States :
       /\ Invoke(state, new, <<>>, FALSE)
       /\ state' = new
  /\ UNCHANGED <<options, router, location, prev, debounceVars>>

LandShort == Completes(FALSE)

NextSync == NextUpdate \/ LandShort

SpecSync == InitSync /\ [][NextSync]_vars

(***************************************************************************)
(* A second call that starts while the navigation of the first is in       *)
(* flight.                                                                 *)
(***************************************************************************)
InitInflight ==
  /\ options \in DefaultCodecOptions
  /\ options.defaultValues = LibraryDefaults
  /\ state \in {EmptyState, FullState}
  /\ router = [query |-> EncodeState(state), pathname |-> Pathname]
  /\ location = NavigateUrl(Pathname, SearchParams(router.query))
  /\ inflight = <<>>
  /\ call = NoCall
  /\ prev = NoCall
  /\ navCount = 0
  /\ synced = EmptyState
  /\ IdleDebounce

\* The callback runs again before the router has completed the navigation
\* of the call before: router.query is still the one that call started from.
OverlappingUpdate ==
  /\ call.status = "awaiting"
  /\ prev.status = "none"
  /\ prev' = call
  /\ \E new \in States :
       /\ Invoke(state, new, <<>>, TRUE)
       /\ state' = new
  /\ UNCHANGED <<options, router, location, debounceVars>>

NextInflight == Update \/ OverlappingUpdate \/ Land

SpecInflight == InitInflight /\ [][NextInflight]_vars

(***************************************************************************)
(* The debounce layer: a timer per slice with a positive delay.  A change  *)
(* of such a slice restarts its timer; the slices whose timers have run    *)
(* out are given to the callback together; a slice without delay is given  *)
(* to it at once.                                                          *)
(***************************************************************************)
\* The changes of one slice within one delay window.
MaxBurst == 2

\* The slices that change in this specification.
DebounceScope == {"globalFilter", "pagination", "sorting"}

InitDebounce ==
  /\ options = DebounceOptions
  /\ state = EmptyState
  /\ router = [query |-> EncodeState(state), pathname |-> Pathname]
  /\ location = NavigateUrl(Pathname, SearchParams(router.query))
  /\ inflight = <<>>
  /\ call = NoCall
  /\ prev = NoCall
  /\ navCount = 0
  /\ synced = state
  /\ IdleDebounce

\* State s with the slices of `set` taken from state `from`.
With(s, set, from) == [sl \in Slices |-> IF sl \in set THEN from[sl] ELSE s[sl]]

\* Mutant: a pending timer is left running instead of being restarted.
KeptTimer(slice) ==
  IF timer[slice] > 0 THEN timer[slice] ELSE options.debounce[slice]

\* clearTimeout(pending); setTimeout(flush, delay)
RestartedTimer(slice) == options.debounce[slice]

\* A state-change event of the table.
Change ==
  /\ call.status # "awaiting"
  /\ navCount < MaxCalls
  /\ \E new \in States :
       LET changed == {s \in Slices : new[s] # state[s]}
           delayed == {s \in changed : options.debounce[s] > 0}
           now == changed \ delayed
           target == With(synced, now, new)
       IN /\ changed # {}
          /\ changed \subseteq DebounceScope
          /\ \A s \in delayed : timer[s] >= 0 => burst[s] < MaxBurst
          /\ state' = new
          /\ timer' = [s \in Slices |->
                         IF s \in delayed THEN RestartedTimer(s) ELSE timer[s]]
          /\ elapsed' = [s \in Slices |->
                           IF s \in delayed THEN 0 ELSE elapsed[s]]
          /\ burst' = [s \in Slices |->
                         IF s \notin delayed THEN burst[s]
                         ELSE IF timer[s] >= 0 THEN burst[s] + 1 ELSE 1]
          /\ IF now # {}
               THEN Invoke(synced, target, <<>>, FALSE) /\ synced' = target
               ELSE UNCHANGED <<call, inflight, navCount, synced>>
  /\ UNCHANGED <<options, router, location, prev>>

\* One tick of the clock; a timer that has run out fires before the next.
Tick ==
  /\ \A s \in Slices : timer[s] # 0
  /\ \E s \in Slices : timer[s] > 0
  /\ timer' = [s \in Slices |-> IF timer[s] > 0 THEN timer[s] - 1 ELSE timer[s]]
  /\ elapsed' = [s \in Slices |->
                   IF timer[s] > 0 THEN elapsed[s] + 1 ELSE elapsed[s]]
  /\ UNCHANGED <<options, state, router, location, inflight, call, prev,
                 navCount, synced, burst>>

\* The timers that have run out fire: their slices go to the callback with
\* the values the table has now.
Expire ==
  LET due == {s \in Slices : timer[s] = 0}
      target == With(synced, due, state)
  IN /\ due # {}
     /\ call.status # "awaiting"
     /\ Invoke(synced, target, <<>>, FALSE)
     /\ synced' = target
     /\ timer' = [s \in Slices |-> IF s \in due THEN -1 ELSE timer[s]]
     /\ UNCHANGED <<options, state, router, location, prev, elapsed, burst>>

NextDebounce == Change \/ Tick \/ Expire \/ LandShort

SpecDebounce == InitDebounce /\ [][NextDebounce]_vars

(***************************************************************************)
(* Properties of one invocation (specification Spec).                      *)
(***************************************************************************)
\* The call got as far as router.navigate.
Navigated == call.status \in {"awaiting", "resolved", "rejected"}

\* The slice's value differs between the call's oldState and newState.
Differs(slice) == call.new[slice] # call.old[slice]

\* What a query gives a key: its value, ABSENT for none or undefined.
ValueAt(q, k) == IF q[k] = UNDEF THEN ABSENT ELSE q[k]

\* C1: an invocation that reaches its end has issued exactly one
\* router.navigate call, whatever the number of changed slices.
C1_OneNavigation ==
  Navigated => call.navs = 1 /\ navCount = 1 /\ Len(inflight) <= 1

\* update(s, s) has returned after its one navigation.
C1_Witness ==
  /\ call.status = "resolved"
  /\ call.old = call.new
  /\ navCount = 1

\* C2: the parameters of every unchanged slice and every key that is no
\* table parameter have in the navigated query the value router.query gave
\* them when the call started; update(s, s) navigates to the current query.
C2_UnchangedUntouched ==
  Navigated =>
    /\ \A s \in Slices : ~Differs(s) =>
         \A p \in ParamsOf(s) :
           call.cleanQuery[p] = ValueAt(call.startQuery, p)
    /\ \A k \in Keys \ TableParams :
         call.cleanQuery[k] = ValueAt(call.startQuery, k)
    /\ call.old = call.new =>
         \A k \in Keys : call.cleanQuery[k] = ValueAt(call.startQuery, k)

\* Only columnFilters changed: globalFilter and the other key are kept.
C2_Witness ==
  /\ Navigated
  /\ call.old.globalFilter = "test" /\ call.new.globalFilter = "test"
  /\ call.old.columnFilters = <<>> /\ call.new.columnFilters # <<>>
  /\ options.encoders = {} /\ options.paramNames = DefaultParamNames
  /\ call.startQuery["columnFilters"] = ABSENT
  /\ call.cleanQuery["globalFilter"] = "test"
  /\ call.cleanQuery[OtherKey] = "1"
  /\ call.cleanQuery["columnFilters"] = "name.%22John%22"

\* The default encoding of the call's new value of a single-parameter slice.
NewEncoding(slice) ==
  LET d == options.defaultValues
  IN CASE slice = "globalFilter" ->
            encodeGlobalFilter(call.new.globalFilter, d.globalFilter)
       [] slice = "sorting" -> encodeSorting(call.new.sorting, d.sorting)
       [] slice = "columnFilters" ->
            encodeColumnFilters(call.new.columnFilters, d.columnFilters)
       [] slice = "columnOrder" ->
            encodeColumnOrder(call.new.columnOrder, d.columnOrder)
       [] slice = "rowSelection" ->
            encodeRowSelection(call.new.rowSelection, d.rowSelection)

\* C3: every changed slice under the default codec has its parameter set to
\* the encoding of the new value, and absent when that encoding is
\* undefined, whatever router.query held and however many slices changed.
C3_ChangedEncodedOrRemoved ==
  Navigated =>
    /\ \A s \in (Slices \ {"pagination"}) \ options.encoders : Differs(s) =>
         call.cleanQuery[options.paramNames[s]] =
           (IF NewEncoding(s) = UNDEF THEN ABSENT ELSE NewEncoding(s))
    /\ ("pagination" \notin options.encoders /\ Differs("pagination")) =>
         LET e == encodePagination(call.new.pagination,
                                   options.defaultValues.pagination)
         IN /\ call.cleanQuery[options.paramNames.pageIndex] =
                 (IF e.pageIndex = UNDEF THEN ABSENT ELSE e.pageIndex)
            /\ call.cleanQuery[options.paramNames.pageSize] =
                 (IF e.pageSize = UNDEF THEN ABSENT ELSE e.pageSize)

\* globalFilter and columnFilters, both in the URL, are cleared in one call.
C3_Witness ==
  /\ Navigated
  /\ options.encoders = {} /\ options.paramNames = DefaultParamNames
  /\ call.new.globalFilter = UNDEF /\ call.new.columnFilters = <<>>
  /\ call.startQuery["globalFilter"] = "test"
  /\ call.startQuery["columnFilters"] = "name.%22John%22"
  /\ call.cleanQuery["globalFilter"] = ABSENT
  /\ call.cleanQuery["columnFilters"] = ABSENT
  /\ call.new.sorting # call.old.sorting
  /\ call.cleanQuery["sorting"] = "name.desc"

\* C4: a pagination change under the default codec puts pageIndex + 1 and
\* pageSize in the navigated query, each of the two left out on its own
\* when it equals its default; a change of one field is a change.
C4_PaginationOneBased ==
  (Navigated /\ "pagination" \notin options.encoders) =>
    LET o == call.old.pagination
        n == call.new.pagination
        d == options.defaultValues.pagination
    IN (o.pageIndex # n.pageIndex \/ o.pageSize # n.pageSize) =>
         /\ call.cleanQuery[options.paramNames.pageIndex] =
              (IF n.pageIndex = d.pageIndex THEN ABSENT
               ELSE ToString(n.pageIndex + 1))
         /\ call.cleanQuery[options.paramNames.pageSize] =
              (IF n.pageSize = d.pageSize THEN ABSENT
               ELSE ToString(n.pageSize))

\* Only the page size changed, to 20, on the first page of a stale URL.
C4_Witness ==
  /\ Navigated
  /\ options.encoders = {} /\ options.defaultValues = LibraryDefaults
  /\ call.old.pagination = [pageIndex |-> 0, pageSize |-> 10]
  /\ call.new.pagination = [pageIndex |-> 0, pageSize |-> 20]
  /\ call.startQuery["pageIndex"] = "stale"
  /\ call.cleanQuery["pageIndex"] = ABSENT
  /\ call.cleanQuery["pageSize"] = "20"

\* An encoder of the call threw.
EncoderThrew == \E s \in DOMAIN call.res : call.res[s].throws

\* C7: when a caller-supplied encoder throws, the call rejects, no
\* navigation is issued and router.query stays as it was; when
\* router.navigate rejects, the call rejects and nothing is retried.
C7_ErrorsPropagate ==
  /\ (call.status # "none" /\ EncoderThrew) =>
       /\ call.status = "threw"
       /\ navCount = 0 /\ inflight = <<>>
       /\ router.query = call.startQuery
  /\ call.status = "rejected" =>
       /\ navCount = 1 /\ inflight = <<>>
       /\ router.query = call.startQuery

\* The encoder of a changed slice threw.
C7_Witness ==
  /\ call.status = "threw"
  /\ \E s \in options.encoders : Differs(s) /\ call.res[s].throws

\* C8 as claimed: after a change of a slice with a caller-supplied encoder,
\* each parameter of the slice holds the value the encoder returned for it
\* and is absent when the encoder returned none.
C8_OverrideSetsOrDeletes ==
  Navigated =>
    \A s \in options.encoders : Differs(s) =>
      \A p \in ParamsOf(s) :
        call.cleanQuery[p] = ValueAt(call.res[s].obj, p)

\* C9: the serialized query holds no undefined value, and the URL is the
\* pathname, followed by "?" and the query string unless that is empty.
C9_CleanQueryAndUrl ==
  Navigated =>
    /\ \A k \in Keys : call.cleanQuery[k] # UNDEF
    /\ LET qs == SearchParams(call.cleanQuery)
       IN /\ qs = "" => call.url = router.pathname
          /\ qs # "" => call.url = router.pathname \o "?" \o qs
    /\ call.status = "awaiting" => inflight = <<[url |-> call.url,
                                                 query |-> call.cleanQuery]>>
    /\ call.status = "resolved" => location = call.url

\* The last parameter of the URL is cleared: the URL is the pathname alone.
C9_Witness ==
  /\ call.status = "resolved"
  /\ call.startQuery = [EmptyQuery EXCEPT !["globalFilter"] = "test"]
  /\ call.new.globalFilter = UNDEF
  /\ call.cleanQuery = EmptyQuery
  /\ location = Pathname

(***************************************************************************)
(* Properties of calls in sequence (SpecSync) and in overlap               *)
(* (SpecInflight).                                                         *)
(***************************************************************************)
\* C10: between calls the URL is in sync with the table state: each table
\* parameter is in router.query exactly when the encoding of its slice's
\* current value is defined, and holds that encoding.
C10_UrlInSync ==
  /\ call.status # "awaiting" =>
       \A p \in TableParams : router.query[p] = EncodeState(state)[p]
  /\ call.status = "awaiting" =>
       \A p \in TableParams : Head(inflight).query[p] = EncodeState(state)[p]

\* Two calls have been made and the state with every slice set is in the
\* URL, beside the key that is no table parameter.
C10_Witness ==
  /\ call.status = "resolved"
  /\ navCount = MaxCalls
  /\ state = FullState
  /\ options.paramNames = DefaultParamNames
  /\ router.query["globalFilter"] = "test"
  /\ router.query["pageIndex"] = "2"
  /\ router.query["rowSelection"] = "r1"
  /\ router.query[OtherKey] = "1"

\* The slices the first call changed and the second did not.
OnlyFirstChanged ==
  {s \in Slices : prev.new[s] # prev.old[s] /\ call.new[s] = call.old[s]}

\* C6: a call that starts while the navigation of the call before is in
\* flight builds its query from router.query as it is then, which does not
\* hold the first call's changes; when both navigations have completed the
\* URL is the second call's query, and what only the first call changed is
\* as it was before the first call.
C6_LastWriteWins ==
  (call.overlapped /\ call.status \in {"awaiting", "resolved"}) =>
    /\ call.startQuery = prev.startQuery
    /\ \A s \in OnlyFirstChanged : \A p \in ParamsOf(s) :
         call.cleanQuery[p] = prev.startQuery[p]
    /\ (prev.status = "resolved" /\ call.status = "resolved") =>
         /\ location = call.url
         /\ router.query = call.cleanQuery
         /\ \A s \in OnlyFirstChanged : \A p \in ParamsOf(s) :
              router.query[p] = prev.startQuery[p]

\* The first call set globalFilter, the second only sorting: both have
\* completed and the URL holds the sorting and no globalFilter.
C6_Witness ==
  /\ call.overlapped
  /\ prev.status = "resolved" /\ call.status = "resolved"
  /\ options.paramNames = DefaultParamNames
  /\ prev.old.globalFilter = UNDEF /\ prev.new.globalFilter = "test"
  /\ prev.cleanQuery["globalFilter"] = "test"
  /\ call.new.globalFilter = "test"
  /\ call.old.sorting = <<>> /\ call.new.sorting # <<>>
  /\ router.query["globalFilter"] = ABSENT
  /\ router.query["sorting"] = "name.desc"
  /\ location = "/?sorting=name.desc"

(***************************************************************************)
(* Properties of the debounce layer (SpecDebounce).                        *)
(***************************************************************************)
\* C5: a navigation carries a change of a debounced slice only when the
\* slice's timer has run out, a full delay after the slice last changed,
\* and then carries the value the slice has now; each timer that runs out
\* gives one navigation, however many changes restarted it.
C5_TrailingEdge ==
  [][\A s \in Slices : options.debounce[s] > 0 =>
       /\ (navCount' # navCount /\ call'.new[s] # call'.old[s]) =>
            /\ timer[s] = 0
            /\ elapsed[s] >= options.debounce[s]
            /\ navCount' = navCount + 1
            /\ call'.new[s] = state[s]
            /\ \A p \in ParamsOf(s) :
                 call'.cleanQuery[p] = EncodeState(state)[p]
       /\ (timer[s] = 0 /\ timer'[s] = -1) =>
            /\ navCount' = navCount + 1
            /\ call'.new[s] = state[s]]_vars

\* The page changed twice within the delay, from {0, 10} to {1, 20}: the
\* timer has run out and the one navigation made carries pageIndex=2 and
\* pageSize=20.
C5_Witness ==
  /\ burst["pagination"] = 2
  /\ timer["pagination"] = -1
  /\ call.status = "awaiting"
  /\ navCount = 1
  /\ call.old.pagination = [pageIndex |-> 0, pageSize |-> 10]
  /\ call.new.pagination = [pageIndex |-> 1, pageSize |-> 20]
  /\ call.cleanQuery["pageIndex"] = "2"
  /\ call.cleanQuery["pageSize"] = "20"

====
